---- MODULE Spec2Model ----
(***************************************************************************)
(* Model of stremio_to_m3u.py: the resolution pipeline of the Stremio      *)
(* addon to M3U converter (manifest fetch, per-catalog fetch, quality      *)
(* filter, bounded fan-out of stream resolutions on a thread pool,         *)
(* collection, sort by name, concatenation, exit status and file write).   *)
(*                                                                         *)
(* Text that the code inspects character by character (item names, the     *)
(* quality filter) is a sequence of one-character strings; text the code   *)
(* only tests for emptiness or copies (URLs, ids, logos, catalog names) is *)
(* a TLA+ string.  A JSON field is a record [kind, s] with kind "absent"   *)
(* (key missing) or "str" (a string value).                                *)
(***************************************************************************)
EXTENDS Integers, Sequences, FiniteSets, TLC

\* ------------------------------------------------------------------ bounds
\* Longest manifest (number of catalogs) the model fetches.
MaxCatalogs == 2
\* Longest catalog listing (number of metas) the model fetches.
MaxItems == 2
\* Size of the single catalog of the worker-pool specification SpecPool.
PoolItems == 12

\* ------------------------------------------------------- program constants
MAX_WORKERS == 10

\* ------------------------------------------------------------- JSON values
Absent == [kind |-> "absent", s |-> ""]
JStr(str) == [kind |-> "str", s |-> str]

\* Python truthiness of the value dict.get(key) returns for a field.
Truthy(v) == v.kind = "str" /\ v.s # ""

\* ------------------------------------------------------------- characters
\* The characters the model's names and filters are written with, in
\* code-point order; Ord(c) is an order-preserving stand-in for ord(c).
Alphabet == <<" ", ",", "A", "B", "E", "M", "N", "O", "X", "a", "b", "e", "m", "o", "x">>

Ord(c) == CHOOSE i \in 1..Len(Alphabet) : Alphabet[i] = c

\* str.upper() on one character.
UpperChar(c) ==
    CASE c = "a" -> "A"
      [] c = "b" -> "B"
      [] c = "e" -> "E"
      [] c = "m" -> "M"
      [] c = "o" -> "O"
      [] c = "x" -> "X"
      [] OTHER -> c

\* str.upper()
Upper(str) == [i \in 1..Len(str) |-> UpperChar(str[i])]

\* str.strip(): drop leading and trailing whitespace.
RECURSIVE LStrip(_)
LStrip(str) ==
    IF str # <<>> /\ Head(str) = " " THEN LStrip(Tail(str)) ELSE str

RECURSIVE RStrip(_)
RStrip(str) ==
    IF str # <<>> /\ str[Len(str)] = " "
    THEN RStrip(SubSeq(str, 1, Len(str) - 1))
    ELSE str

Strip(str) == RStrip(LStrip(str))

\* str.split(","): the pieces between commas, empty pieces included.
RECURSIVE SplitFrom(_, _)
SplitFrom(str, cur) ==
    IF str = <<>> THEN <<cur>>
    ELSE IF Head(str) = "," THEN <<cur>> \o SplitFrom(Tail(str), <<>>)
    ELSE SplitFrom(Tail(str), Append(cur, Head(str)))

Split(str) == SplitFrom(str, <<>>)

\* "kw in text": kw occurs in text as a contiguous substring.
Contains(text, kw) ==
    \E i \in 0..(Len(text) - Len(kw)) :
        \A j \in 1..Len(kw) : text[i + j] = kw[j]

\* Python's str "<": lexicographic by code point.
RECURSIVE StrLess(_, _)
StrLess(a, b) ==
    IF b = <<>> THEN FALSE
    ELSE IF a = <<>> THEN TRUE
    ELSE IF Head(a) = Head(b) THEN StrLess(Tail(a), Tail(b))
    ELSE Ord(Head(a)) < Ord(Head(b))

\* ---------------------------------------------------------------- records
NoName == <<"N", "o", " ", "N", "a", "m", "e">>

NoChannel == [name |-> <<>>, url |-> Absent, logo |-> "", group |-> ""]

\* Result of one future: a Channel, None, or a raised exception.
ResChannel(ch) == [kind |-> "channel", ch |-> ch]
ResNone == [kind |-> "none", ch |-> NoChannel]
ResExc == [kind |-> "exc", ch |-> NoChannel]
ResPending == [kind |-> "pending", ch |-> NoChannel]

\* fetch_stream's return value: None, or the decoded JSON object.
DataNone == [ok |-> FALSE, has_streams |-> FALSE, streams |-> <<>>]
DataDict(has, streams) == [ok |-> TRUE, has_streams |-> has, streams |-> streams]

\* ---------------------------------------------------------- pure functions
NoStreamInfo == [some |-> FALSE, url |-> Absent, name |-> Absent, title |-> Absent]

\* dict.get(key, ""): the field's value, "" when the key is missing.
GetOrEmpty(v) == IF v.kind = "absent" THEN JStr("") ELSE v

\* s.get("url") or s.get("externalUrl", "")
StreamUrl(s) == IF Truthy(s.url) THEN s.url ELSE GetOrEmpty(s.externalUrl)

\* "url" in s or "externalUrl" in s
HasUrlKey(s) == s.url.kind # "absent" \/ s.externalUrl.kind # "absent"

\* next((StreamInfo(...) for s in streams if ...), None)
RECURSIVE FirstStream(_)
FirstStream(streams) ==
    IF streams = <<>> THEN NoStreamInfo
    ELSE IF HasUrlKey(Head(streams))
    THEN [some |-> TRUE,
          url |-> StreamUrl(Head(streams)),
          name |-> GetOrEmpty(Head(streams).name),
          title |-> GetOrEmpty(Head(streams).title)]
    ELSE FirstStream(Tail(streams))

extract_stream_info(data) ==
    IF ~data.ok \/ ~data.has_streams THEN NoStreamInfo
    ELSE FirstStream(data.streams)

\* meta.get("name", "No Name")
MetaName(meta) == IF meta.name.kind = "absent" THEN NoName ELSE meta.name.s

\* meta.get("poster", meta.get("logo", ""))
MetaLogo(meta) ==
    IF meta.poster.kind # "absent" THEN meta.poster.s
    ELSE IF meta.logo.kind # "absent" THEN meta.logo.s
    ELSE ""

meta_to_channel(meta, stream_info, group) ==
    [name |-> MetaName(meta),
     url |-> stream_info.url,
     logo |-> MetaLogo(meta),
     group |-> group]

\* quote(id, safe="") in build_stream_url raises TypeError for an id that is
\* not a string (meta.get("id") is None when the key is missing); the call
\* sits before fetch_stream's try block, so the exception leaves fetch_stream.
StreamUrlRaises(meta) == meta.id.kind # "str"

\* resolve_channel: `http` is what the GET of the stream URL produces
\* (DataNone when the request, the status check or the decoding fails).
resolve_channel(catalog_ref, meta, http) ==
    IF StreamUrlRaises(meta) THEN ResExc
    ELSE IF ~extract_stream_info(http).some THEN ResNone
    ELSE ResChannel(meta_to_channel(meta, extract_stream_info(http), catalog_ref.name))

\* Mutant of KeywordsOf: the `if k.strip()` test is missing, so empty pieces
\* stay in the keyword list.
KeywordsOf_mut(pieces) == [i \in 1..Len(pieces) |-> Upper(Strip(pieces[i]))]

\* keywords = [k.strip().upper() for k in quality_filter.split(",") if k.strip()]
RECURSIVE KeywordsOf(_)
KeywordsOf(pieces) ==
    IF pieces = <<>> THEN <<>>
    ELSE IF Strip(Head(pieces)) # <<>>
    THEN <<Upper(Strip(Head(pieces)))>> \o KeywordsOf(Tail(pieces))
    ELSE KeywordsOf(Tail(pieces))

Keywords(quality_filter) == KeywordsOf(Split(quality_filter))

\* m.get("name", "").upper()
FilterName(meta) == IF meta.name.kind = "absent" THEN <<>> ELSE Upper(meta.name.s)

\* any(kw in m.get("name", "").upper() for kw in keywords)
MatchesAny(meta, keywords) ==
    \E i \in 1..Len(keywords) : Contains(FilterName(meta), keywords[i])

RECURSIVE SelectMetas(_, _)
SelectMetas(metas, keywords) ==
    IF metas = <<>> THEN <<>>
    ELSE IF MatchesAny(Head(metas), keywords)
    THEN <<Head(metas)>> \o SelectMetas(Tail(metas), keywords)
    ELSE SelectMetas(Tail(metas), keywords)

filter_metas_by_quality(metas, quality_filter) ==
    IF quality_filter = <<>> THEN metas
    ELSE IF Keywords(quality_filter) = <<>> THEN metas
    ELSE SelectMetas(metas, Keywords(quality_filter))

\* Mutant of SortByName: the sort is missing.
SortByName_mut(channels) == channels

\* list.sort(key=lambda ch: ch.name): a stable sort, so an element is placed
\* after every element already present whose key is not greater.
RECURSIVE InsertByName(_, _)
InsertByName(sorted, ch) ==
    IF sorted = <<>> THEN <<ch>>
    ELSE IF StrLess(ch.name, Head(sorted).name) THEN <<ch>> \o sorted
    ELSE <<Head(sorted)>> \o InsertByName(Tail(sorted), ch)

RECURSIVE SortFrom(_, _)
SortFrom(acc, rest) ==
    IF rest = <<>> THEN acc
    ELSE SortFrom(InsertByName(acc, Head(rest)), Tail(rest))

\* resolved.sort(key=lambda ch: ch.name)
SortByName(channels) == SortFrom(<<>>, channels)

\* ------------------------------------------------------------------ inputs
SeqsUpTo(S, n) == UNION {[1..m -> S] : m \in 0..n}

\* Catalog entries a manifest may list (CatalogRef values).
CatalogRefs ==
    {[type |-> "tv", id |-> "c1", name |-> "News"],
     [type |-> "movie", id |-> "c2", name |-> "Films"]}

\* Manifests the addon may serve: every catalog sequence up to MaxCatalogs.
Manifests == SeqsUpTo(CatalogRefs, MaxCatalogs)

Meta(id, name, poster, logo) ==
    [id |-> id, name |-> name, poster |-> poster, logo |-> logo]

\* Catalog items (metas) the addon may serve.
Metas ==
    {Meta(JStr("a1"), [kind |-> "str", s |-> <<"a">>], Absent, Absent),
     Meta(JStr("b1"), [kind |-> "str", s |-> <<"B">>], JStr("p.png"), JStr("l.png")),
     Meta(JStr("n1"), [kind |-> "absent", s |-> <<>>], Absent, JStr("l.png")),
     Meta(Absent, [kind |-> "str", s |-> <<"a", "b">>], Absent, Absent)}

\* Listings a catalog endpoint may return in "metas".
Listings == SeqsUpTo(Metas, MaxItems)

Entry(url, externalUrl) ==
    [url |-> url, externalUrl |-> externalUrl, name |-> Absent, title |-> JStr("t")]

\* What the GET of a stream URL may produce, as fetch_stream returns it.
StreamPayloads ==
    {DataNone,
     DataDict(FALSE, <<>>),
     DataDict(TRUE, <<Entry(Absent, Absent)>>),
     DataDict(TRUE, <<Entry(Absent, JStr("http://a")), Entry(JStr("http://b"), Absent)>>),
     DataDict(TRUE, <<Entry(Absent, Absent), Entry(JStr("http://b"), Absent)>>),
     DataDict(TRUE, <<Entry(JStr(""), Absent)>>)}

\* Values of the QUALITY_FILTER environment variable.
QualityFilters ==
    {<<>>,
     <<" ", ",", " ">>,
     <<" ", "b", ",", ",", "x">>}

\* ------------------------------------------------------------------- state
VARIABLES
    pc,              \* position of the main thread
    exit_status,     \* -1 while running, then the process exit status
    output_file,     \* [exists, channels]: what write_m3u has written
    quality_filter,  \* config.quality_filter
    manifest_state,  \* "unfetched", "ok" or "failed"
    manifest,        \* manifest.catalogs
    k,               \* index of the catalog resolve_all_channels is at
    raw_metas,       \* fetch_catalog's result for catalog k
    metas,           \* the filtered metas of catalog k
    nsub,            \* number of resolve_channel calls submitted to the pool
    queue,           \* the pool's work queue (item indices, FIFO)
    running,         \* items whose resolve_channel runs on a pool worker
    stream_data,     \* item -> what fetch_stream got for it
    fut,             \* item -> outcome of its future
    collected,       \* items whose future as_completed has yielded
    resolved,        \* the list `resolved`
    returned,        \* the tuple resolve_catalog_channels is returning
    fetched,         \* fetched[j]: fetch_catalog gave a list for catalog j
    all_channels,    \* the channels resolve_all_channels has produced
    owner            \* all_channels[i] came from catalog owner[i]

vars ==
    <<pc, exit_status, output_file, quality_filter, manifest_state, manifest,
      k, raw_metas, metas, nsub, queue, running, stream_data, fut, collected,
      resolved, returned, fetched, all_channels, owner>>

poolVars == <<nsub, queue, running, stream_data, fut, collected, resolved>>
mainVars == <<exit_status, output_file, quality_filter, manifest_state, manifest>>
catalogVars == <<k, raw_metas, metas, returned, fetched, all_channels, owner>>

Items == 1..Len(metas)

Init ==
    /\ pc = "fetch_manifest"
    /\ exit_status = -1
    /\ output_file = [exists |-> FALSE, channels |-> <<>>]
    /\ quality_filter \in QualityFilters
    /\ manifest_state = "unfetched"
    /\ manifest = <<>>
    /\ k = 1
    /\ raw_metas = <<>>
    /\ metas = <<>>
    /\ nsub = 0
    /\ queue = <<>>
    /\ running = {}
    /\ stream_data = <<>>
    /\ fut = <<>>
    /\ collected = {}
    /\ resolved = <<>>
    /\ returned = <<>>
    /\ fetched = <<>>
    /\ all_channels = <<>>
    /\ owner = <<>>

\* ------------------------------------------------------------ main: start
\* main: fetch_manifest raises; the except clause prints and calls sys.exit(1).
FetchManifestFail ==
    /\ pc = "fetch_manifest"
    /\ manifest_state' = "failed"
    /\ exit_status' = 1
    /\ pc' = "exited"
    /\ UNCHANGED <<output_file, quality_filter, manifest>>
    /\ UNCHANGED catalogVars
    /\ UNCHANGED poolVars

\* main: fetch_manifest returns, parse_manifest builds the catalog tuple and
\* resolve_all_channels starts with the first catalog.
FetchManifestOk ==
    /\ pc = "fetch_manifest"
    /\ \E m \in Manifests : manifest' = m
    /\ manifest_state' = "ok"
    /\ pc' = "catalogs"
    /\ UNCHANGED <<exit_status, output_file, quality_filter>>
    /\ UNCHANGED catalogVars
    /\ UNCHANGED poolVars

\* ---------------------------------------------- resolve_catalog_channels
\* Mutant of FetchCatalogFail: the exception of a failed catalog fetch is not
\* caught and ends the run.
FetchCatalogFail_mut ==
    /\ pc = "catalogs"
    /\ k <= Len(manifest)
    /\ fetched' = Append(fetched, FALSE)
    /\ pc' = "crashed"
    /\ exit_status' = 1
    /\ UNCHANGED <<k, raw_metas, metas, returned, all_channels, owner>>
    /\ UNCHANGED <<output_file, quality_filter, manifest_state, manifest>>
    /\ UNCHANGED poolVars

\* fetch_catalog returns None (request, status or decoding failed):
\* resolve_catalog_channels returns () and the generator moves on.
FetchCatalogFail ==
    /\ pc = "catalogs"
    /\ k <= Len(manifest)
    /\ fetched' = Append(fetched, FALSE)
    /\ k' = k + 1
    /\ UNCHANGED <<pc, raw_metas, metas, returned, all_channels, owner>>
    /\ UNCHANGED mainVars
    /\ UNCHANGED poolVars

\* fetch_catalog returns the listing; the quality filter is applied and a
\* fresh pool and an empty `resolved` list are set up for the fan-out.
FetchCatalogOk ==
    /\ pc = "catalogs"
    /\ k <= Len(manifest)
    /\ \E listing \in Listings :
        /\ raw_metas' = listing
        /\ metas' = filter_metas_by_quality(listing, quality_filter)
    /\ fetched' = Append(fetched, TRUE)
    /\ nsub' = 0
    /\ queue' = <<>>
    /\ running' = {}
    /\ stream_data' = [i \in 1..Len(metas') |-> DataNone]
    /\ fut' = [i \in 1..Len(metas') |-> ResPending]
    /\ collected' = {}
    /\ resolved' = <<>>
    /\ pc' = "pool"
    /\ UNCHANGED <<k, returned, all_channels, owner>>
    /\ UNCHANGED mainVars

\* pool.submit(resolve_channel, base_url, catalog_ref, meta) for the next meta.
Submit ==
    /\ pc = "pool"
    /\ nsub < Len(metas)
    /\ nsub' = nsub + 1
    /\ queue' = Append(queue, nsub + 1)
    /\ UNCHANGED <<pc, running, stream_data, fut, collected, resolved>>
    /\ UNCHANGED mainVars
    /\ UNCHANGED catalogVars

\* Mutant of WorkerFree: the pool starts a worker for every work item.
WorkerFree_mut == TRUE

\* ThreadPoolExecutor(max_workers=MAX_WORKERS): a work item leaves the queue
\* only when fewer than MAX_WORKERS workers are busy.
WorkerFree == Cardinality(running) < MAX_WORKERS

\* A pool worker takes the oldest queued work item and calls resolve_channel,
\* which calls fetch_stream.
StartTask ==
    /\ queue # <<>>
    /\ WorkerFree
    /\ running' = running \cup {Head(queue)}
    /\ queue' = Tail(queue)
    /\ UNCHANGED <<pc, nsub, stream_data, fut, collected, resolved>>
    /\ UNCHANGED mainVars
    /\ UNCHANGED catalogVars

\* resolve_channel returns or raises on its worker; the future is done.
FinishTaskWith(payloads) ==
    \E i \in running : \E http \in payloads :
        /\ running' = running \ {i}
        /\ stream_data' =
              [stream_data EXCEPT ![i] = IF StreamUrlRaises(metas[i]) THEN DataNone ELSE http]
        /\ fut' = [fut EXCEPT ![i] = resolve_channel(manifest[k], metas[i], http)]
        /\ UNCHANGED <<pc, nsub, queue, collected, resolved>>
        /\ UNCHANGED mainVars
        /\ UNCHANGED catalogVars

FinishTask == FinishTaskWith(StreamPayloads)

\* The dict comprehension has submitted every meta: as_completed is iterated.
AllSubmitted == nsub = Len(metas)

\* Mutant of Collect: the `if channel is not None` test is missing.
Collect_mut ==
    /\ pc = "pool"
    /\ AllSubmitted
    /\ \E i \in Items \ collected :
        /\ fut[i].kind # "pending"
        /\ collected' = collected \cup {i}
        /\ resolved' = IF fut[i].kind # "exc" THEN Append(resolved, fut[i].ch) ELSE resolved
        /\ pc' = IF fut[i].kind = "exc" THEN "raising" ELSE "pool"
    /\ UNCHANGED <<nsub, queue, running, stream_data, fut>>
    /\ UNCHANGED mainVars
    /\ UNCHANGED catalogVars

\* for future in as_completed(future_to_meta): one done future is yielded;
\* future.result() re-raises what resolve_channel raised.
Collect ==
    /\ pc = "pool"
    /\ AllSubmitted
    /\ \E i \in Items \ collected :
        /\ fut[i].kind # "pending"
        /\ collected' = collected \cup {i}
        /\ resolved' = IF fut[i].kind = "channel" THEN Append(resolved, fut[i].ch) ELSE resolved
        /\ pc' = IF fut[i].kind = "exc" THEN "raising" ELSE "pool"
    /\ UNCHANGED <<nsub, queue, running, stream_data, fut>>
    /\ UNCHANGED mainVars
    /\ UNCHANGED catalogVars

\* Mutant of AllCollected: the loop over the futures may stop early.
AllCollected_mut == TRUE

\* as_completed is exhausted: every submitted future has been yielded.
AllCollected == collected = Items

\* Leaving the `with` block: shutdown(wait=True) returns once no work item is
\* queued or running.
PoolIdle == queue = <<>> /\ running = {}

\* The for loop ends, the pool is shut down, `resolved` is sorted and the
\* tuple is returned.
SortAndReturn ==
    /\ pc = "pool"
    /\ AllSubmitted
    /\ AllCollected
    /\ PoolIdle
    /\ returned' = SortByName(resolved)
    /\ pc' = "returning"
    /\ UNCHANGED <<k, raw_metas, metas, fetched, all_channels, owner>>
    /\ UNCHANGED mainVars
    /\ UNCHANGED poolVars

\* resolve_all_channels takes the channels of the returned tuple and its
\* generator moves to the next catalog; the locals of the finished
\* resolve_catalog_channels call are gone.
YieldCatalog ==
    /\ pc = "returning"
    /\ all_channels' = all_channels \o returned
    /\ owner' = owner \o [i \in 1..Len(returned) |-> k]
    /\ k' = k + 1
    /\ pc' = "catalogs"
    /\ raw_metas' = <<>>
    /\ metas' = <<>>
    /\ returned' = <<>>
    /\ nsub' = 0
    /\ stream_data' = <<>>
    /\ fut' = <<>>
    /\ collected' = {}
    /\ resolved' = <<>>
    /\ UNCHANGED <<queue, running, fetched>>
    /\ UNCHANGED mainVars

\* An exception raised by future.result() leaves the `with` block (the pool
\* waits for its workers), resolve_catalog_channels, resolve_all_channels and
\* main: the interpreter prints the traceback and exits with status 1.
PoolExitRaise ==
    /\ pc = "raising"
    /\ PoolIdle
    /\ pc' = "crashed"
    /\ exit_status' = 1
    /\ UNCHANGED <<output_file, quality_filter, manifest_state, manifest>>
    /\ UNCHANGED catalogVars
    /\ UNCHANGED poolVars

\* -------------------------------------------------------------- main: end
\* Mutant of NoChannels: the empty result is not detected.
NoChannels_mut(channels) == FALSE

\* `if not all_channels`
NoChannels(channels) == channels = <<>>

\* resolve_all_channels has returned: exit 1 without writing when there is
\* no channel, else format, write the file and end with status 0.
MainTail ==
    /\ pc = "catalogs"
    /\ k > Len(manifest)
    /\ IF NoChannels(all_channels)
       THEN /\ exit_status' = 1
            /\ UNCHANGED output_file
       ELSE /\ output_file' = [exists |-> TRUE, channels |-> all_channels]
            /\ exit_status' = 0
    /\ pc' = "exited"
    /\ UNCHANGED <<quality_filter, manifest_state, manifest>>
    /\ UNCHANGED catalogVars
    /\ UNCHANGED poolVars

Next ==
    \/ FetchManifestFail
    \/ FetchManifestOk
    \/ FetchCatalogFail
    \/ FetchCatalogOk
    \/ Submit
    \/ StartTask
    \/ FinishTask
    \/ Collect
    \/ SortAndReturn
    \/ YieldCatalog
    \/ PoolExitRaise
    \/ MainTail

Spec == Init /\ [][Next]_vars

\* ------------------------------------------------- worker-pool specification
\* The pool during the fan-out of one catalog larger than the pool, from the
\* state main is in once fetch_catalog has returned PoolItems items for the
\* only catalog, with no quality filter: main submits and the workers start
\* and finish resolve_channel calls.  The collection of the results, which
\* leaves the queue and the workers untouched, is part of Spec.
PoolMeta == Meta(JStr("a1"), [kind |-> "str", s |-> <<"a">>], Absent, Absent)

PoolPayloads == {DataDict(TRUE, <<Entry(JStr("http://b"), Absent)>>)}

InitPool ==
    /\ pc = "pool"
    /\ exit_status = -1
    /\ output_file = [exists |-> FALSE, channels |-> <<>>]
    /\ quality_filter = <<>>
    /\ manifest_state = "ok"
    /\ manifest = <<[type |-> "tv", id |-> "c1", name |-> "News"]>>
    /\ k = 1
    /\ raw_metas = [i \in 1..PoolItems |-> PoolMeta]
    /\ metas = filter_metas_by_quality(raw_metas, quality_filter)
    /\ nsub = 0
    /\ queue = <<>>
    /\ running = {}
    /\ stream_data = [i \in 1..Len(metas) |-> DataNone]
    /\ fut = [i \in 1..Len(metas) |-> ResPending]
    /\ collected = {}
    /\ resolved = <<>>
    /\ returned = <<>>
    /\ fetched = <<TRUE>>
    /\ all_channels = <<>>
    /\ owner = <<>>

FinishTaskPool == FinishTaskWith(PoolPayloads)

NextPool ==
    \/ Submit
    \/ StartTask
    \/ FinishTaskPool

SpecPool == InitPool /\ [][NextPool]_vars

\* ------------------------------------------------------------------ claims
\* resolve_catalog_channels is at its return statement after a fan-out.
AtReturn == pc = "returning"

\* A stream payload with a usable entry: a streams list holding an entry that
\* has a "url" or an "externalUrl" key.
Usable(data) ==
    /\ data.ok
    /\ data.has_streams
    /\ \E e \in 1..Len(data.streams) :
          data.streams[e].url.kind # "absent" \/ data.streams[e].externalUrl.kind # "absent"

\* The channels of the futures in submission order: `resolved` as it is when
\* the futures complete in the order they were submitted.
RECURSIVE InOrderFrom(_)
InOrderFrom(i) ==
    IF i > Len(fut) THEN <<>>
    ELSE IF fut[i].kind = "channel" THEN <<fut[i].ch>> \o InOrderFrom(i + 1)
    ELSE InOrderFrom(i + 1)

\* C1: every Channel resolution produces, whether still held by a future, in
\* `resolved`, or in the result of resolve_all_channels, has a URL that is a
\* non-empty string.
C1_ChannelUrlNonEmpty ==
    /\ \A i \in DOMAIN fut : fut[i].kind = "channel" => Truthy(fut[i].ch.url)
    /\ \A i \in DOMAIN resolved : Truthy(resolved[i].url)
    /\ \A i \in DOMAIN all_channels : Truthy(all_channels[i].url)

\* C2: for fixed items and fixed stream responses the tuple that
\* resolve_catalog_channels returns does not depend on the completion order:
\* it is the tuple returned when the futures complete in submission order.
C2_ReturnIndependentOfCompletionOrder ==
    AtReturn => returned = SortByName(InOrderFrom(1))

\* C3: an item's failing stream fetch never ends the run: the process exits
\* with a nonzero status only when the manifest fetch failed or when every
\* catalog has been processed and no channel was resolved.
C3_OnlyFatalConditionsEndRun ==
    (exit_status # -1 /\ exit_status # 0) =>
        \/ manifest_state = "failed"
        \/ (manifest_state = "ok" /\ k > Len(manifest) /\ all_channels = <<>>)

\* C4: a run whose manifest fetch failed or that resolved no channel ends
\* with a nonzero status and without a file; a file exists only after a
\* successful manifest fetch, holds at least one channel, and status 0 is
\* reached only with the file written.
C4_FatalExitsWriteNoFile ==
    /\ (exit_status # -1 /\ (manifest_state = "failed" \/ all_channels = <<>>)) =>
          (exit_status # 0 /\ ~output_file.exists)
    /\ output_file.exists =>
          (manifest_state = "ok" /\ all_channels # <<>> /\ output_file.channels = all_channels)
    /\ exit_status = 0 => output_file.exists

\* Witness of C4: the manifest was fetched, one catalog was listed and
\* resolved to nothing, the other could not be fetched, and main has exited
\* with status 1.
C4_Witness ==
    /\ pc = "exited"
    /\ manifest_state = "ok"
    /\ fetched = <<TRUE, FALSE>>
    /\ all_channels = <<>>
    /\ exit_status = 1
    /\ ~output_file.exists

\* The step in which fetch_catalog fails for catalog k.
CatalogFailStep ==
    /\ Len(fetched') = Len(fetched) + 1
    /\ ~fetched'[Len(fetched')]

\* C5: a failed catalog fetch contributes no channel, leaves the pool
\* untouched (no stream request), and leaves the run at the next catalog.
C5_CatalogFailureScoped ==
    /\ [](\A i \in DOMAIN owner : owner[i] \in DOMAIN fetched /\ fetched[owner[i]])
    /\ [][CatalogFailStep =>
            /\ pc' = "catalogs"
            /\ k' = k + 1
            /\ exit_status' = -1
            /\ all_channels' = all_channels
            /\ UNCHANGED poolVars]_vars

\* Witness of C5: the first catalog's fetch failed and the result holds the
\* channels of the second.
C5_Witness ==
    /\ pc = "exited"
    /\ exit_status = 0
    /\ fetched = <<FALSE, TRUE>>
    /\ all_channels # <<>>
    /\ \A i \in DOMAIN owner : owner[i] = 2

\* C6: in the result, channels of an earlier catalog come before those of a
\* later one, and within one catalog names are in nondecreasing order.
C6_ConcatenationOrder ==
    /\ Len(owner) = Len(all_channels)
    /\ \A i, j \in DOMAIN all_channels :
          i < j =>
            /\ owner[i] <= owner[j]
            /\ owner[i] = owner[j] => ~StrLess(all_channels[j].name, all_channels[i].name)

\* Witness of C6: two catalogs contributed, one of them two channels with
\* different names, and the whole result is not alphabetical.
C6_Witness ==
    /\ pc = "exited"
    /\ \E i, j \in DOMAIN all_channels :
          /\ i < j
          /\ owner[i] = owner[j]
          /\ all_channels[i].name # all_channels[j].name
    /\ \E i, j \in DOMAIN all_channels :
          /\ i < j
          /\ owner[i] < owner[j]
          /\ StrLess(all_channels[j].name, all_channels[i].name)

\* C7: during collection `resolved` holds one channel per collected item with
\* a usable payload; the returned tuple holds one channel per item with a
\* usable payload, each grouped under the catalog's name.
C7_OneChannelPerResolvedItem ==
    /\ pc = "pool" =>
          Len(resolved) = Cardinality({i \in collected : Usable(stream_data[i])})
    /\ AtReturn =>
          /\ Len(returned) = Cardinality({i \in Items : Usable(stream_data[i])})
          /\ \A i \in DOMAIN returned : returned[i].group = manifest[k].name
          /\ \A i \in Items :
                Usable(stream_data[i]) =>
                    \E j \in DOMAIN returned : returned[j].name = MetaName(metas[i])

\* Witness of C7: a fan-out returned with one item resolved and one not.
C7_Witness ==
    /\ AtReturn
    /\ Len(metas) >= 2
    /\ Len(returned) = 1
    /\ \E i \in Items : ~Usable(stream_data[i])

\* C8: at most 10 stream resolutions are in flight.
C8_AtMostTenInFlight == Cardinality(running) <= 10

\* Witness of C8: ten in flight while another item waits in the queue.
C8_Witness == Cardinality(running) = 10 /\ queue # <<>>

\* A filter string holding something besides commas and whitespace.
NonBlankFilter == \E i \in DOMAIN quality_filter : quality_filter[i] \notin {" ", ","}

\* The item's name contains, case-insensitively, a trimmed non-empty piece of
\* the comma-separated filter.
NameHasKeyword(meta) ==
    \E p \in DOMAIN Split(quality_filter) :
        /\ Strip(Split(quality_filter)[p]) # <<>>
        /\ meta.name.kind = "str"
        /\ Contains(Upper(meta.name.s), Upper(Strip(Split(quality_filter)[p])))

\* C9: with a non-blank filter only items whose name has a keyword are
\* submitted for stream resolution; with a blank filter every item of the
\* listing is, and all of them by the time the fan-out returns.
C9_FilterBeforeFanout ==
    /\ pc \in {"pool", "raising"} =>
          /\ nsub <= Len(metas)
          /\ NonBlankFilter => \A i \in 1..nsub : NameHasKeyword(metas[i])
          /\ ~NonBlankFilter => \A i \in 1..nsub : metas[i] = raw_metas[i]
    /\ (AtReturn /\ ~NonBlankFilter) =>
          /\ nsub = Len(raw_metas)
          /\ \A i \in 1..nsub : fut[i].kind # "pending"

\* Witness of C9: a keyword filter kept one item of a two-item listing and
\* its stream resolution has been submitted.
C9_Witness ==
    /\ pc = "pool"
    /\ NonBlankFilter
    /\ Len(raw_metas) = 2
    /\ Len(metas) = 1
    /\ nsub = 1

\* C10: resolve_catalog_channels returns only with every submitted future
\* done and collected and nothing queued or running, and main is at a catalog
\* boundary (or past the last one) only with the pool idle.
C10_CatalogsOneAtATime ==
    /\ AtReturn =>
          /\ nsub = Len(metas)
          /\ collected = 1..Len(metas)
          /\ \A i \in 1..Len(metas) : fut[i].kind # "pending"
    /\ pc \in {"returning", "catalogs", "exited"} => (queue = <<>> /\ running = {})

\* Witness of C10: stream resolutions of the second catalog are running and
\* the result already holds the channels of the first.
C10_Witness ==
    /\ pc = "pool"
    /\ k = 2
    /\ running # {}
    /\ all_channels # <<>>
    /\ \A i \in DOMAIN owner : owner[i] = 1

====
